---- MODULE Spec2Model ----
(***************************************************************************)
(* A model of the terminal snake game of snake.py: the game loop of        *)
(* run_game (key poll, direction update, tick scheduler, update step) and  *)
(* the helpers it uses (is_opposite, place_food).  Times are in            *)
(* milliseconds (the source uses seconds as floats), positions and         *)
(* directions are pairs <<x, y>>, and the snake is a sequence, head first. *)
(***************************************************************************)
EXTENDS Integers, Sequences, FiniteSets

\* ------------------------------------------------------------------------
\* Program constants
WIDTH == 30
HEIGHT == 20
BASE_TICK == 120
MIN_TICK == 50
TICK_DECAY == 2

DIR_UP == <<0, -1>>
DIR_DOWN == <<0, 1>>
DIR_LEFT == <<-1, 0>>
DIR_RIGHT == <<1, 0>>

Directions == {DIR_UP, DIR_DOWN, DIR_LEFT, DIR_RIGHT}

\* ------------------------------------------------------------------------
\* Bounds of the model
\* the session is explored up to MaxQuanta * Quantum milliseconds
MaxQuanta == 20
\* one loop iteration takes 1..MaxDelay quanta of time
MaxDelay == 1
\* the session without key input is explored up to StraightQuanta * Quantum
StraightQuanta == 32
\* the process with its session loop is explored up to MainQuanta * Quantum
MainQuanta == 20
\* a session of a grown snake is explored up to GrownQuanta * Quantum
GrownQuanta == 5
\* in that session one loop iteration takes 1..LongDelay quanta of time
LongDelay == 5
\* grown snakes start with a score at most GrownSpan from a landmark score
GrownSpan == 1
\* a session with pending input is explored up to InputQuanta * Quantum
InputQuanta == 4
\* at most MaxPending key presses are pending on standard input
MaxPending == 2
\* a coasting session is explored up to CoastQuanta * Quantum
CoastQuanta == 62
\* food eaten in a session is explored up to MaxScore
MaxScore == 2
\* the random source draws positions at most FoodReach steps from the grid centre
FoodReach == 1

\* the unit of time of the model: half the base tick interval
Quantum == BASE_TICK \div 2
MaxTime == MaxQuanta * Quantum
StraightTime == StraightQuanta * Quantum
MainTime == MainQuanta * Quantum
GrownTime == GrownQuanta * Quantum
InputTime == InputQuanta * Quantum
CoastTime == CoastQuanta * Quantum
Deltas == {k * Quantum : k \in 1..MaxDelay}

\* ------------------------------------------------------------------------
\* Keys: the values read_key can return.  "None" is no key, "ESC..." are
\* the escape sequences ("ESC" and "ESC[" are partial ones), "x" stands for
\* an unrecognized key.
KEY_TO_DIR ==
    [k \in {"H", "P", "K", "M", "ESC[A", "ESC[B", "ESC[D", "ESC[C",
            "w", "s", "a", "d", "W", "S", "A", "D"} |->
        CASE k \in {"H", "ESC[A", "w", "W"} -> DIR_UP
          [] k \in {"P", "ESC[B", "s", "S"} -> DIR_DOWN
          [] k \in {"K", "ESC[D", "a", "A"} -> DIR_LEFT
          [] k \in {"M", "ESC[C", "d", "D"} -> DIR_RIGHT]

QuitKeys == {"q", "Q"}
OtherKeys == {"None", "x", "ESC", "ESC["}
\* byte strings that str.decode rejects; "0xFF" stands for them
Undecodable == {"0xFF"}
\* what read_key_windows and read_key_posix can return
RawKeys == QuitKeys \cup DOMAIN KEY_TO_DIR \cup OtherKeys \cup Undecodable

\* read_key: no key for None and for bytes that fail to decode
read_key(raw) == IF raw \in Undecodable THEN "None" ELSE raw

Keys == {read_key(raw) : raw \in RawKeys}

\* ------------------------------------------------------------------------
\* Helpers
\* a variant that joins the two comparisons with "or"
is_opposite_either(a, b) == a[1] = -b[1] \/ a[2] = -b[2]

is_opposite(a, b) == a[1] = -b[1] /\ a[2] = -b[2]

Max(a, b) == IF a >= b THEN a ELSE b
Abs(n) == IF n >= 0 THEN n ELSE -n

\* set(snake)
SetOf(s) == {s[i] : i \in 1..Len(s)}

\* the positions random.randint yields in the model
RandomPositions ==
    {pos \in (0..(WIDTH - 1)) \X (0..(HEIGHT - 1)) :
        Abs(pos[1] - WIDTH \div 2) + Abs(pos[2] - HEIGHT \div 2) <= FoodReach}

\* a variant that returns the first draw without the membership test
place_food_unchecked(snake_set, draws) == draws

\* place_food: the positions the retry loop can return when the random
\* source yields the positions in draws
place_food(snake_set, draws) == {pos \in draws : pos \notin snake_set}

\* a variant that falls back to DIR_RIGHT for a key that is not mapped
NewDirection_default(key, dir) ==
    LET candidate == IF key \in DOMAIN KEY_TO_DIR
                     THEN KEY_TO_DIR[key]
                     ELSE DIR_RIGHT
    IN IF ~is_opposite(candidate, dir) THEN candidate ELSE dir

\* the direction after a key has been handled
NewDirection(key, dir) ==
    IF key \in DOMAIN KEY_TO_DIR
    THEN LET candidate == KEY_TO_DIR[key]
         IN IF ~is_opposite(candidate, dir) THEN candidate ELSE dir
    ELSE dir

NextHead(s, dir) == <<s[1][1] + dir[1], s[1][2] + dir[2]>>

\* a variant whose bound of the right wall is off by one
OutOfGrid_right(pos) ==
    \/ pos[1] < 0
    \/ pos[1] > WIDTH
    \/ pos[2] < 0
    \/ pos[2] >= HEIGHT

\* a variant whose bound of the bottom wall is off by one
OutOfGrid_below(pos) ==
    \/ pos[1] < 0
    \/ pos[1] >= WIDTH
    \/ pos[2] < 0
    \/ pos[2] > HEIGHT

OutOfGrid(pos) ==
    \/ pos[1] < 0
    \/ pos[1] >= WIDTH
    \/ pos[2] < 0
    \/ pos[2] >= HEIGHT

\* a variant that skips the head and the segment behind it
InSnake_skip_neck(pos, s) == pos \in {s[i] : i \in 3..Len(s)}

\* a variant that leaves out the tail cell
InSnake_skip_tail(pos, s) == pos \in {s[i] : i \in 1..(Len(s) - 1)}

\* next_head in snake
InSnake(pos, s) == pos \in SetOf(s)

\* a variant that appends at the tail end
AppendLeft_right(s, pos) == s \o <<pos>>

\* snake.appendleft(pos)
AppendLeft(s, pos) == <<pos>> \o s
\* a variant that removes nothing
Pop_nothing(s) == s

\* snake.pop()
Pop(s) == SubSeq(s, 1, Len(s) - 1)

\* a variant without the floor
TickInterval_unfloored(sc) == BASE_TICK - sc * TICK_DECAY

TickInterval(sc) == Max(MIN_TICK, BASE_TICK - sc * TICK_DECAY)

\* ------------------------------------------------------------------------
\* State
VARIABLES
    snake,      \* deque of positions, head first
    direction,  \* current direction vector
    food,       \* food position
    score,      \* food eaten
    tick,       \* tick interval, ms
    last_tick,  \* time of the last update, ms
    now,        \* the clock as last read, ms
    pc,         \* "poll": at read_key; "update": at the time check;
                \* "place_food": in the retry loop of place_food; "done"
    reason,     \* "none" while running, else the reason run_game returned
    stdin,      \* pending input: a sequence of key presses, each a
                \* sequence of characters
    term,       \* terminal mode: "cooked" or "cbreak"
    proc,       \* position of main: "start", "loop", "session", "prompt",
                \* "exited"
    os_name,    \* os.name: "nt" or "posix"
    msvcrt,     \* the msvcrt module was imported
    termios,    \* select, termios and tty were imported
    saved       \* TerminalMode.old: the captured terminal mode, or "none"

game == <<snake, direction, food, score, tick, last_tick, now, pc, reason>>
env == <<stdin, term, proc, os_name, msvcrt, termios, saved>>
vars == <<snake, direction, food, score, tick, last_tick, now, pc, reason,
          stdin, term, proc, os_name, msvcrt, termios, saved>>

InitSnake ==
    <<<<WIDTH \div 2, HEIGHT \div 2>>,
      <<WIDTH \div 2 - 1, HEIGHT \div 2>>,
      <<WIDTH \div 2 - 2, HEIGHT \div 2>>>>

Init ==
    /\ snake = InitSnake
    /\ direction = DIR_RIGHT
    /\ score = 0
    /\ food \in place_food(SetOf(InitSnake), RandomPositions)
    /\ last_tick = 0
    /\ now = 0
    /\ tick = BASE_TICK
    /\ pc = "poll"
    /\ reason = "none"
    /\ stdin = <<>>
    /\ term = "cbreak"
    /\ proc = "session"
    /\ os_name = "posix"
    /\ msvcrt = FALSE
    /\ termios = TRUE
    /\ saved = "cooked"

\* ------------------------------------------------------------------------
\* A variant of the key poll that quits on the lower-case q only
Poll_lower_q(key) ==
    /\ pc = "poll"
    /\ IF key = "q"
       THEN /\ reason' = "quit"
            /\ pc' = "done"
            /\ UNCHANGED direction
       ELSE /\ direction' = NewDirection(key, direction)
            /\ pc' = "update"
            /\ UNCHANGED reason
    /\ UNCHANGED <<snake, food, score, tick, last_tick, now>>

\* Key poll and direction update (lines 181-187)
Poll(key) ==
    /\ pc = "poll"
    /\ IF key \in QuitKeys
       THEN /\ reason' = "quit"
            /\ pc' = "done"
            /\ UNCHANGED direction
       ELSE /\ direction' = NewDirection(key, direction)
            /\ pc' = "update"
            /\ UNCHANGED reason
    /\ UNCHANGED <<snake, food, score, tick, last_tick, now>>

\* The time check finds no tick due (line 190 false), then render and sleep
Skip(t) ==
    /\ pc = "update"
    /\ now' = t
    /\ ~(t - last_tick >= tick)
    /\ pc' = "poll"
    /\ UNCHANGED <<snake, direction, food, score, tick, last_tick, reason>>

\* A tick is due and the next head is outside the grid (lines 190-201)
TickWall(t) ==
    /\ pc = "update"
    /\ now' = t
    /\ t - last_tick >= tick
    /\ last_tick' = t
    /\ OutOfGrid(NextHead(snake, direction))
    /\ reason' = "wall"
    /\ pc' = "done"
    /\ UNCHANGED <<snake, direction, food, score, tick>>

\* A tick is due and the next head is on the snake (lines 190-204)
TickSelf(t) ==
    /\ pc = "update"
    /\ now' = t
    /\ t - last_tick >= tick
    /\ last_tick' = t
    /\ ~OutOfGrid(NextHead(snake, direction))
    /\ InSnake(NextHead(snake, direction), snake)
    /\ reason' = "self"
    /\ pc' = "done"
    /\ UNCHANGED <<snake, direction, food, score, tick>>

\* A tick is due and the next head is the food (lines 190-210)
TickEat(t, draws) ==
    /\ pc = "update"
    /\ now' = t
    /\ t - last_tick >= tick
    /\ last_tick' = t
    /\ ~OutOfGrid(NextHead(snake, direction))
    /\ ~InSnake(NextHead(snake, direction), snake)
    /\ NextHead(snake, direction) = food
    /\ snake' = AppendLeft(snake, NextHead(snake, direction))
    /\ score' = score + 1
    /\ food' \in place_food(SetOf(snake'), draws)
    /\ tick' = TickInterval(score')
    /\ pc' = "poll"
    /\ UNCHANGED <<direction, reason>>

\* the range of the two random.randint calls (line 132)
AllPositions == (0..(WIDTH - 1)) \X (0..(HEIGHT - 1))

\* A tick is due, the next head is the food and the snake then covers the
\* whole grid: place_food rejects every draw and never returns
\* (lines 190-209, 131-134)
TickEatFull(t) ==
    /\ pc = "update"
    /\ now' = t
    /\ t - last_tick >= tick
    /\ last_tick' = t
    /\ ~OutOfGrid(NextHead(snake, direction))
    /\ ~InSnake(NextHead(snake, direction), snake)
    /\ NextHead(snake, direction) = food
    /\ snake' = AppendLeft(snake, NextHead(snake, direction))
    /\ score' = score + 1
    /\ place_food(SetOf(snake'), AllPositions) = {}
    /\ pc' = "place_food"
    /\ UNCHANGED <<direction, food, tick, reason>>

\* A variant of the free-cell tick that advances the timestamp by one
\* interval
TickMove_accumulate(t) ==
    /\ pc = "update"
    /\ now' = t
    /\ t - last_tick >= tick
    /\ last_tick' = last_tick + tick
    /\ ~OutOfGrid(NextHead(snake, direction))
    /\ ~InSnake(NextHead(snake, direction), snake)
    /\ NextHead(snake, direction) # food
    /\ snake' = Pop(AppendLeft(snake, NextHead(snake, direction)))
    /\ pc' = "poll"
    /\ UNCHANGED <<direction, food, score, tick, reason>>

\* A tick is due and the next head is a free cell (lines 190-212)
TickMove(t) ==
    /\ pc = "update"
    /\ now' = t
    /\ t - last_tick >= tick
    /\ last_tick' = t
    /\ ~OutOfGrid(NextHead(snake, direction))
    /\ ~InSnake(NextHead(snake, direction), snake)
    /\ NextHead(snake, direction) # food
    /\ snake' = Pop(AppendLeft(snake, NextHead(snake, direction)))
    /\ pc' = "poll"
    /\ UNCHANGED <<direction, food, score, tick, reason>>

\* the values time.time() can return at the time check, up to a horizon
Clock(horizon) == {t \in {now + d : d \in Deltas} : t <= horizon}

\* One running session on a POSIX terminal; the key read is any of Keys
Next ==
    \/ \E key \in Keys : Poll(key) /\ UNCHANGED env
    \/ \E t \in Clock(MaxTime) : Skip(t) /\ UNCHANGED env
    \/ \E t \in Clock(MaxTime) : TickWall(t) /\ UNCHANGED env
    \/ \E t \in Clock(MaxTime) : TickSelf(t) /\ UNCHANGED env
    \/ \E t \in Clock(MaxTime) :
          score < MaxScore /\ TickEat(t, RandomPositions) /\ UNCHANGED env
    \/ \E t \in Clock(MaxTime) : TickMove(t) /\ UNCHANGED env

Spec == Init /\ [][Next]_vars

\* The session in which read_key never returns a key
NextStraight ==
    \/ Poll("None") /\ UNCHANGED env
    \/ \E t \in Clock(StraightTime) : Skip(t) /\ UNCHANGED env
    \/ \E t \in Clock(StraightTime) : TickWall(t) /\ UNCHANGED env
    \/ \E t \in Clock(StraightTime) :
          score < MaxScore /\ TickEat(t, RandomPositions) /\ UNCHANGED env
    \/ \E t \in Clock(StraightTime) : TickMove(t) /\ UNCHANGED env

SpecStraight == Init /\ [][NextStraight]_vars

\* ------------------------------------------------------------------------
\* Sessions of a grown snake.  The states below are states of a session in
\* which the player has led the snake to the top left corner and then along
\* the rows of the grid, eating on the way: the snake lies on the first
\* 3 + score cells of the path that runs through row 0 from left to right,
\* row 1 from right to left, and so on; the last update has just been done.

\* the k-th cell of that path, k = 0 .. WIDTH * HEIGHT - 1
PathCell(k) ==
    LET row == k \div WIDTH
        col == k % WIDTH
    IN <<IF row % 2 = 0 THEN col ELSE WIDTH - 1 - col, row>>

\* the snake of n segments lying on the path, its tail in the corner
PathSnake(n) == [i \in 1..n |-> PathCell(n - i)]

\* the score from which the tick interval is at its floor
FloorScore == (BASE_TICK - MIN_TICK) \div TICK_DECAY
\* the score of a snake that leaves one cell of the grid free
LastScore == WIDTH * HEIGHT - Len(InitSnake) - 1

GrownScores ==
    {sc \in 0..LastScore :
        \/ sc <= GrownSpan
        \/ Abs(sc - FloorScore) <= GrownSpan
        \/ sc >= LastScore - GrownSpan}

\* the positions random.randint yields in these sessions: at most FoodReach
\* steps from the cell pos
DrawsNear(pos) ==
    {p \in AllPositions :
        Abs(p[1] - pos[1]) + Abs(p[2] - pos[2]) <= FoodReach}

\* the direction of the last move of a snake
LastMove(s) == <<s[1][1] - s[2][1], s[1][2] - s[2][2]>>

GrownSession ==
    /\ \E sc \in GrownScores :
          /\ score = sc
          /\ snake = PathSnake(Len(InitSnake) + sc)
          /\ tick = IF sc = 0 THEN BASE_TICK ELSE TickInterval(sc)
    /\ food \in place_food(SetOf(snake), DrawsNear(snake[1]))
    /\ last_tick = 0
    /\ now = 0
    /\ reason = "none"
    /\ stdin = <<>>
    /\ term = "cbreak"
    /\ proc = "session"
    /\ os_name = "posix"
    /\ msvcrt = FALSE
    /\ termios = TRUE
    /\ saved = "cooked"

\* the session is at the key poll after an update
InitGrown ==
    /\ GrownSession
    /\ direction = LastMove(snake)
    /\ pc = "poll"

\* the values time.time() can return when iterations take up to LongDelay
\* quanta
LongClock(horizon) ==
    {t \in {now + k * Quantum : k \in 1..LongDelay} : t <= horizon}

NextGrown ==
    \/ \E key \in Keys : Poll(key) /\ UNCHANGED env
    \/ \E t \in LongClock(GrownTime) : Skip(t) /\ UNCHANGED env
    \/ \E t \in LongClock(GrownTime) : TickWall(t) /\ UNCHANGED env
    \/ \E t \in LongClock(GrownTime) : TickSelf(t) /\ UNCHANGED env
    \/ \E t \in LongClock(GrownTime) :
          /\ TickEat(t, DrawsNear(NextHead(snake, direction)))
          /\ UNCHANGED env
    \/ \E t \in LongClock(GrownTime) : TickEatFull(t) /\ UNCHANGED env
    \/ \E t \in LongClock(GrownTime) : TickMove(t) /\ UNCHANGED env

SpecGrown == InitGrown /\ [][NextGrown]_vars

\* Coasting: the session has handled a key after an update and reads no key
\* from then on; the loop keeps iterating
InitCoast ==
    /\ GrownSession
    /\ direction \in
          {NewDirection(key, LastMove(snake)) : key \in Keys \ QuitKeys}
    /\ pc = "update"

NextCoast ==
    \/ Poll("None") /\ UNCHANGED env
    \/ \E t \in Clock(CoastTime) : Skip(t) /\ UNCHANGED env
    \/ \E t \in Clock(CoastTime) : TickWall(t) /\ UNCHANGED env
    \/ \E t \in Clock(CoastTime) : TickSelf(t) /\ UNCHANGED env
    \/ \E t \in Clock(CoastTime) :
          /\ TickEat(t, DrawsNear(NextHead(snake, direction)))
          /\ UNCHANGED env
    \/ \E t \in Clock(CoastTime) : TickEatFull(t) /\ UNCHANGED env
    \/ \E t \in Clock(CoastTime) : TickMove(t) /\ UNCHANGED env

SpecCoast == InitCoast /\ [][NextCoast]_vars /\ WF_vars(NextCoast)

\* ------------------------------------------------------------------------
\* Sessions with standard input.  stdin holds the pending key presses in
\* order, each with the characters it sent that have not been read yet;
\* the reader sees their concatenation.  "ESC" is the character 0x1B.

\* the key presses of the player: q, w, a, the Escape key and arrow up
Presses ==
    {<<"q">>, <<"w">>, <<"a">>, <<"ESC">>, <<"ESC", "[", "A">>}

\* the characters pending on standard input
RECURSIVE Pending(_)
Pending(presses) ==
    IF presses = <<>> THEN <<>> ELSE presses[1] \o Pending(Tail(presses))

\* read_key_posix: the characters it reads from the pending characters;
\* select reports standard input readable when a character is pending
read_key_posix(chars) ==
    IF chars = <<>>
    THEN <<>>
    ELSE IF chars[1] # "ESC"
    THEN <<chars[1]>>
    ELSE IF Len(chars) >= 2
    THEN IF chars[2] = "[" /\ Len(chars) >= 3
         THEN <<chars[1], chars[2], chars[3]>>
         ELSE <<chars[1], chars[2]>>
    ELSE <<chars[1]>>

\* the value read_key_posix returns for the characters read: None, the
\* character, or the string f"{ch}{ch2}{ch3}"; a string that is no key of
\* the game is the unrecognized key "x"
KeyString(read) ==
    CASE read = <<>> -> "None"
      [] read = <<"ESC">> -> "ESC"
      [] read = <<"ESC", "[">> -> "ESC["
      [] read = <<"ESC", "[", "A">> -> "ESC[A"
      [] read = <<"ESC", "[", "B">> -> "ESC[B"
      [] read = <<"ESC", "[", "C">> -> "ESC[C"
      [] read = <<"ESC", "[", "D">> -> "ESC[D"
      [] Len(read) = 1 /\ read[1] \in RawKeys -> read[1]
      [] OTHER -> "x"

\* standard input after n characters have been read
RECURSIVE Consume(_, _)
Consume(presses, n) ==
    IF n = 0 \/ presses = <<>>
    THEN presses
    ELSE IF n >= Len(presses[1])
    THEN Consume(Tail(presses), n - Len(presses[1]))
    ELSE <<SubSeq(presses[1], n + 1, Len(presses[1]))>> \o Tail(presses)

\* The player presses a key: the terminal delivers its characters
KeyPress(press) ==
    /\ pc \in {"poll", "update"}
    /\ Len(stdin) < MaxPending
    /\ stdin' = Append(stdin, press)
    /\ UNCHANGED <<game, term, proc, os_name, msvcrt, termios, saved>>

\* Key poll of a session that reads standard input (lines 96-123, 181-187)
PollInput ==
    /\ Poll(read_key(KeyString(read_key_posix(Pending(stdin)))))
    /\ stdin' = Consume(stdin, Len(read_key_posix(Pending(stdin))))
    /\ UNCHANGED <<term, proc, os_name, msvcrt, termios, saved>>

NextInput ==
    \/ \E press \in Presses : KeyPress(press)
    \/ PollInput
    \/ \E t \in Clock(InputTime) : Skip(t) /\ UNCHANGED env
    \/ \E t \in Clock(InputTime) : TickSelf(t) /\ UNCHANGED env
    \/ \E t \in Clock(InputTime) :
          score < MaxScore /\ TickEat(t, RandomPositions) /\ UNCHANGED env
    \/ \E t \in Clock(InputTime) : TickMove(t) /\ UNCHANGED env

SpecInput == Init /\ [][NextInput]_vars

\* ------------------------------------------------------------------------
\* The process: main, the session loop and the terminal mode

\* the platforms: Windows with and without msvcrt, POSIX with and without
\* select/termios/tty
Platforms ==
    {<<"nt", TRUE, FALSE>>, <<"nt", FALSE, FALSE>>,
     <<"posix", FALSE, TRUE>>, <<"posix", FALSE, FALSE>>}

\* the condition of TerminalMode.__enter__ and __exit__
HasTerminalMode == os_name # "nt" /\ termios

\* the answers typed at the play-again prompt, as character sequences
Responses ==
    {<<"y">>, <<"Y">>, <<"y", "e", "s">>, <<" ", "Y", "e", "S", " ">>,
     <<>>, <<"n">>, <<"N", "o">>, <<"y", "e">>, <<"y", " ">>, <<"y", "y">>}

\* str.lower, on the letters of Responses
LowerChar(c) ==
    CASE c = "Y" -> "y"
      [] c = "E" -> "e"
      [] c = "S" -> "s"
      [] c = "N" -> "n"
      [] c = "O" -> "o"
      [] OTHER -> c

Lower(str) == [i \in 1..Len(str) |-> LowerChar(str[i])]

\* str.strip
RECURSIVE LStrip(_)
LStrip(str) ==
    IF str # <<>> /\ str[1] = " " THEN LStrip(Tail(str)) ELSE str

RECURSIVE RStrip(_)
RStrip(str) ==
    IF str # <<>> /\ str[Len(str)] = " "
    THEN RStrip(SubSeq(str, 1, Len(str) - 1))
    ELSE str

Strip(str) == RStrip(LStrip(str))

\* the keys read_key can return on the platform
PlatformKeys(keys) ==
    IF os_name # "nt" /\ ~termios THEN {"None"} ELSE keys

InitMain ==
    /\ snake = <<>>
    /\ direction = DIR_RIGHT
    /\ score = 0
    /\ food = <<0, 0>>
    /\ last_tick = 0
    /\ now = 0
    /\ tick = BASE_TICK
    /\ pc = "done"
    /\ reason = "none"
    /\ stdin = <<>>
    /\ term = "cooked"
    /\ proc = "start"
    /\ \E p \in Platforms :
          os_name = p[1] /\ msvcrt = p[2] /\ termios = p[3]
    /\ saved = "none"

\* main up to its loop: the guard of lines 221-224
MainStart ==
    /\ proc = "start"
    /\ proc' = IF os_name = "nt" /\ ~msvcrt THEN "exited" ELSE "loop"
    /\ UNCHANGED <<game, stdin, term, os_name, msvcrt, termios, saved>>

\* A variant of the session start that keeps the score of the last session
StartSession_keep_score ==
    /\ proc = "loop"
    /\ snake' = InitSnake
    /\ direction' = DIR_RIGHT
    /\ score' = score
    /\ food' \in place_food(SetOf(InitSnake), RandomPositions)
    /\ last_tick' = now
    /\ now' = now
    /\ tick' = BASE_TICK
    /\ IF HasTerminalMode
       THEN saved' = term /\ term' = "cbreak"
       ELSE UNCHANGED <<saved, term>>
    /\ pc' = "poll"
    /\ reason' = "none"
    /\ proc' = "session"
    /\ UNCHANGED <<stdin, os_name, msvcrt, termios>>

\* run_game up to its loop (lines 163-179): the fresh state and
\* TerminalMode.__enter__
StartSession ==
    /\ proc = "loop"
    /\ snake' = InitSnake
    /\ direction' = DIR_RIGHT
    /\ score' = 0
    /\ food' \in place_food(SetOf(InitSnake), RandomPositions)
    /\ last_tick' = now
    /\ now' = now
    /\ tick' = BASE_TICK
    /\ IF HasTerminalMode
       THEN saved' = term /\ term' = "cbreak"
       ELSE UNCHANGED <<saved, term>>
    /\ pc' = "poll"
    /\ reason' = "none"
    /\ proc' = "session"
    /\ UNCHANGED <<stdin, os_name, msvcrt, termios>>

\* run_game returns: TerminalMode.__exit__, then lines 227-235 of main
EndSession ==
    /\ proc = "session"
    /\ pc = "done"
    /\ term' = IF HasTerminalMode THEN saved ELSE term
    /\ proc' = IF reason = "quit" THEN "exited" ELSE "prompt"
    /\ UNCHANGED <<game, stdin, os_name, msvcrt, termios, saved>>

\* A variant of the interrupt without the with statement
Interrupt_leak ==
    /\ proc = "session"
    /\ pc \in {"poll", "update"}
    /\ pc' = "done"
    /\ proc' = "exited"
    /\ UNCHANGED <<snake, direction, food, score, tick, last_tick, now,
                   reason, stdin, term, os_name, msvcrt, termios, saved>>

\* An exception or interrupt raised inside the game loop: __exit__ runs,
\* the exception leaves run_game and main
Interrupt ==
    /\ proc = "session"
    /\ pc \in {"poll", "update"}
    /\ pc' = "done"
    /\ term' = IF HasTerminalMode THEN saved ELSE term
    /\ proc' = "exited"
    /\ UNCHANGED <<snake, direction, food, score, tick, last_tick, now,
                   reason, stdin, os_name, msvcrt, termios, saved>>

\* The play-again prompt (lines 233-235)
Prompt(response) ==
    /\ proc = "prompt"
    /\ proc' = IF Lower(Strip(response)) \in {<<"y">>, <<"y", "e", "s">>}
               THEN "loop"
               ELSE "exited"
    /\ UNCHANGED <<game, stdin, term, os_name, msvcrt, termios, saved>>

\* the keys of the player of the process model
MainKeys == {"None", "q", "s", "a"}

NextMain ==
    \/ MainStart
    \/ StartSession
    \/ /\ proc = "session"
       /\ \E key \in PlatformKeys(MainKeys) : Poll(key)
       /\ UNCHANGED env
    \/ /\ proc = "session"
       /\ \E t \in Clock(MainTime) : Skip(t)
       /\ UNCHANGED env
    \/ /\ proc = "session"
       /\ \E t \in Clock(MainTime) : TickWall(t)
       /\ UNCHANGED env
    \/ /\ proc = "session"
       /\ \E t \in Clock(MainTime) : TickSelf(t)
       /\ UNCHANGED env
    \/ /\ proc = "session"
       /\ score < MaxScore
       /\ \E t \in Clock(MainTime) : TickEat(t, RandomPositions)
       /\ UNCHANGED env
    \/ /\ proc = "session"
       /\ \E t \in Clock(MainTime) : TickMove(t)
       /\ UNCHANGED env
    \/ EndSession
    \/ Interrupt
    \/ \E response \in Responses : Prompt(response)

SpecMain == InitMain /\ [][NextMain]_vars

TypeOK ==
    /\ direction \in Directions
    /\ pc \in {"poll", "update", "place_food", "done"}
    /\ reason \in {"none", "quit", "wall", "self"}
    /\ term \in {"cooked", "cbreak"}
    /\ proc \in {"start", "loop", "session", "prompt", "exited"}
    /\ <<os_name, msvcrt, termios>> \in Platforms

\* ------------------------------------------------------------------------
\* Vocabulary of the properties, written without the model's helpers

Reverse(d) == <<-d[1], -d[2]>>
HeadCell == snake[1]
Neck == snake[2]
TailCell == snake[Len(snake)]
\* the cell in front of the head
Ahead == <<snake[1][1] + direction[1], snake[1][2] + direction[2]>>
Grid == (0..(WIDTH - 1)) \X (0..(HEIGHT - 1))
Cells == {snake[i] : i \in DOMAIN snake}
\* the step taken is a loop iteration's time check that finds a tick due
DueTick == pc = "update" /\ now' - last_tick >= tick

\* ------------------------------------------------------------------------
\* C1: no tick ends the session with reason self because the next head is
\* the segment directly behind the head: the snake never reverses into its
\* own neck, whatever keys are read between two ticks.
C1_NeverReversesIntoNeck == reason = "self" => Ahead # Neck

\* C2: a mapped key whose direction is the exact opposite of the current
\* direction leaves the direction unchanged, any other mapped key sets the
\* direction to its own; is_opposite(d, d) is false and is_opposite(d, -d)
\* is true for the four directions.
C2_DirectionUpdate ==
    [][/\ ~is_opposite(direction, direction)
       /\ is_opposite(direction, Reverse(direction))
       /\ \A k \in DOMAIN KEY_TO_DIR :
            Poll(k) =>
                direction' = IF KEY_TO_DIR[k] = Reverse(direction)
                             THEN direction
                             ELSE KEY_TO_DIR[k]]_vars

\* a turn to the left has been accepted (the session starts facing right)
C2_Witness == pc = "update" /\ direction = DIR_LEFT

\* C3: the food is never on a snake segment.
C3_FoodOffSnake == \A i \in DOMAIN snake : snake[i] # food

\* food has been placed again after the snake ate and turned
C3_Witness == score >= 1 /\ reason = "none" /\ HeadCell[2] # TailCell[2]

\* C4: no two segments of the snake occupy the same position.
C4_SegmentsDistinct ==
    \A i, j \in DOMAIN snake : i # j => snake[i] # snake[j]

\* a grown snake that has turned next to its own body
C4_Witness ==
    /\ reason = "none"
    /\ Len(snake) >= 5
    /\ \E i \in 4..Len(snake) :
          (HeadCell[1] - snake[i][1]) * (HeadCell[1] - snake[i][1])
        + (HeadCell[2] - snake[i][2]) * (HeadCell[2] - snake[i][2]) = 1

\* C5: a tick whose next head is on any cell of the snake, the tail cell
\* included, ends the session with reason self and leaves snake and score.
C5_SelfCollision ==
    [][(DueTick /\ Ahead \in Cells) =>
          /\ reason' = "self"
          /\ pc' = "done"
          /\ snake' = snake
          /\ score' = score]_vars

\* the session ended on a tick that would not eat and moved onto the tail
C5_Witness == reason = "self" /\ Ahead = TailCell /\ Ahead # food

\* C6: every segment and the food lie inside the grid; a tick ends the
\* session with reason wall exactly when the next head is outside the grid.
C6_InsideGrid ==
    /\ [](Cells \subseteq Grid /\ food \in Grid)
    /\ [][DueTick => (reason' = "wall" <=> Ahead \notin Grid)]_vars

\* the session ended at the bottom wall
C6_Witness == reason = "wall" /\ HeadCell[2] = HEIGHT - 1 /\ direction = DIR_DOWN

\* C7: on the 30x20 grid the session starts with snake (15,10),(14,10),
\* (13,10) facing right; with no key and no food eaten the first tick gives
\* (16,10),(15,10),(14,10), and the session ends with reason wall exactly on
\* the tick that would move the head to x = 30.
C7_WallScenario ==
    /\ [](/\ WIDTH = 30 /\ HEIGHT = 20
          /\ last_tick = 0 =>
                /\ snake = <<<<15, 10>>, <<14, 10>>, <<13, 10>>>>
                /\ direction = <<1, 0>>
          /\ score = 0 =>
                /\ HeadCell[1] <= 29
                /\ reason \in {"none", "wall"}
                /\ reason = "wall" => HeadCell = <<29, 10>>)
    /\ [][/\ (last_tick = 0 /\ last_tick' # 0 /\ score' = 0) =>
                snake' = <<<<16, 10>>, <<15, 10>>, <<14, 10>>>>
          /\ (DueTick /\ score = 0 /\ HeadCell[1] = 29) =>
                reason' = "wall"]_vars

\* the session ran straight into the right wall without eating
C7_Witness == reason = "wall" /\ score = 0 /\ HeadCell = <<29, 10>>

\* the step taken is a tick that eats the food
EatingTick == DueTick /\ Ahead = food

\* C8: the snake length is 3 plus the score; a food-eating tick adds one to
\* both, every other step leaves both, and the score never decreases.
C8_LengthAndScore ==
    /\ [](Len(snake) = 3 + score)
    /\ [][/\ score' >= score
          /\ IF EatingTick
             THEN score' = score + 1 /\ Len(snake') = Len(snake) + 1
             ELSE score' = score /\ Len(snake') = Len(snake)]_vars

\* a session that ate twice has returned
C8_Witness == reason # "none" /\ score >= 2 /\ Len(snake) >= 5

\* C9: after a tick that neither eats nor collides the snake is the old
\* head plus the direction followed by the old snake without its last
\* segment, and food, score and tick interval are unchanged.
C9_MoveStep ==
    [][(DueTick /\ Ahead \in Grid /\ Ahead \notin Cells /\ Ahead # food) =>
          /\ snake' = <<Ahead>> \o SubSeq(snake, 1, Len(snake) - 1)
          /\ Len(snake') = Len(snake)
          /\ food' = food
          /\ score' = score
          /\ tick' = tick]_vars

\* the first tick of a session moved the snake up
C9_Witness ==
    /\ reason = "none"
    /\ score = 0
    /\ last_tick = now
    /\ snake = <<<<15, 9>>, <<15, 10>>, <<14, 10>>>>

\* C10: an iteration that reads q or Q ends the session there with reason
\* quit and the current score, without a time check or a state update; no
\* step follows it; a quit before the first tick returns score 0.
C10_Quit ==
    /\ [](reason = "quit" =>
            /\ pc = "done"
            /\ last_tick = 0 => (score = 0 /\ Len(snake) = 3))
    /\ [][/\ reason # "quit"
          /\ \A k \in {"q", "Q"} :
                Poll(k) =>
                    /\ reason' = "quit"
                    /\ snake' = snake /\ direction' = direction
                    /\ food' = food /\ score' = score /\ tick' = tick
                    /\ last_tick' = last_tick /\ now' = now]_vars

\* quit was read, after the snake ate, in an iteration in which any time
\* check would have found a tick due
C10_Witness ==
    /\ reason = "quit"
    /\ score >= 1
    /\ \A t \in Clock(MaxTime + Quantum) : t - last_tick >= tick

\* C11: on every way out of a session (quit, wall, self, an exception or
\* interrupt inside the game loop) the captured terminal mode is restored:
\* the terminal is in cbreak mode only while a session is running, never at
\* the play-again prompt or after the process has ended.
C11_TerminalRestored ==
    /\ [](term = "cbreak" => proc = "session")
    /\ [][(proc = "session" /\ proc' # "session") => term' = "cooked"]_vars

\* an interrupt ended a session that had switched the terminal to cbreak
C11_Witness ==
    /\ proc = "exited"
    /\ reason = "none"
    /\ os_name = "posix"
    /\ saved = "cooked"
    /\ term = "cooked"

\* the answers that are y or yes after trimming, whatever their case
Affirmative ==
    {<<"y">>, <<"Y">>, <<"y", "e", "s">>, <<" ", "Y", "e", "S", " ">>,
     <<"y", " ">>}

\* C12: after a session that ended with quit the process stops without a
\* prompt; after wall or self the prompt is read, an answer of y or yes
\* starts a new session, any other answer stops the process; every session
\* starts from the fresh state whatever the sessions before it did.
C12_SessionLoop ==
    [][/\ proc # "exited"
       /\ (proc = "session" /\ proc' # "session" /\ reason = "quit") =>
              proc' = "exited"
       /\ (proc = "session" /\ proc' # "session"
                            /\ reason \in {"wall", "self"}) =>
              proc' = "prompt"
       /\ \A r \in Responses :
              Prompt(r) => proc' = IF r \in Affirmative THEN "loop"
                                   ELSE "exited"
       /\ proc = "loop" => proc' = "session"
       /\ (proc # "session" /\ proc' = "session") =>
              /\ proc = "loop"
              /\ snake' = <<<<15, 10>>, <<14, 10>>, <<13, 10>>>>
              /\ direction' = <<1, 0>>
              /\ score' = 0
              /\ tick' = 120
              /\ reason' = "none"]_vars

\* a session started after an earlier one had run for some time
C12_Witness ==
    /\ proc = "session"
    /\ pc = "poll"
    /\ now > 0
    /\ last_tick = now
    /\ score = 0
    /\ snake = <<<<15, 10>>, <<14, 10>>, <<13, 10>>>>

\* C13: on a platform that cannot provide non-blocking input (Windows
\* without msvcrt, or a non-Windows platform without select/termios) main
\* exits without starting a session.
C13_DegradedGuard ==
    ((os_name = "nt" /\ ~msvcrt) \/ (os_name # "nt" /\ ~termios)) =>
        proc \notin {"session", "prompt"}

\* C14: the tick interval is max(50, 120 - 2 * score) milliseconds; it never
\* increases, is never below 50, and changes only on a food-eating tick.
C14_TickInterval ==
    /\ [](/\ tick = (IF 120 - 2 * score > 50 THEN 120 - 2 * score ELSE 50)
          /\ tick >= 50)
    /\ [][/\ tick' <= tick
          /\ tick' # tick => EatingTick]_vars

\* the snake ate at the score from which the interval stays at its floor
C14_Witness == score = 37 /\ tick = 50 /\ last_tick > 0 /\ reason = "none"

\* C15: an iteration's time check performs exactly one update and sets the
\* timestamp to the time read when the elapsed time is at least the tick
\* interval, however long it is, and otherwise changes nothing.
C15_Scheduler ==
    [][pc = "update" =>
          IF now' - last_tick >= tick
          THEN /\ last_tick' = now'
               /\ \/ reason' \in {"wall", "self"} /\ snake' = snake
                  \/ /\ reason' = "none"
                     /\ snake'[1] = Ahead
                     /\ SubSeq(snake', 2, Len(snake')) \in
                            {snake, SubSeq(snake, 1, Len(snake) - 1)}
          ELSE /\ pc' = "poll"
               /\ snake' = snake /\ food' = food /\ score' = score
               /\ tick' = tick /\ last_tick' = last_tick
               /\ reason' = reason]_vars

\* one update, of one cell, was done 300 ms after the last one while the
\* tick interval was 120 ms
C15_Witness ==
    /\ last_tick = 300
    /\ now = 300
    /\ tick = 120
    /\ snake = <<<<3, 0>>, <<2, 0>>, <<1, 0>>>>

\* C18: whenever food has to be placed a cell of the grid is free of the
\* snake, so that place_food returns.
C18_FreeCellForFood == \E pos \in Grid : pos \notin Cells

\* C16: a poll that returns no key, bytes that fail to decode, an
\* unrecognized key or a partial escape sequence changes none of direction,
\* snake, food, score and tick interval; a direction key changes at most
\* the direction.
C16_InputFrame ==
    [][/\ (pc = "poll" /\ reason' # "quit") =>
              /\ snake' = snake
              /\ food' = food
              /\ score' = score
              /\ tick' = tick
       /\ \A raw \in {"None", "0xFF", "x", "ESC", "ESC["} :
              Poll(read_key(raw)) =>
                  /\ reason' = reason
                  /\ direction' = direction]_vars

\* a key was handled while a grown snake was moving up
C16_Witness ==
    pc = "update" /\ score >= 1 /\ direction = <<0, -1>> /\ Neck[2] > HeadCell[2]

\* the number of characters pending on standard input
RECURSIVE CharCount(_)
CharCount(presses) ==
    IF presses = <<>> THEN 0 ELSE Len(presses[1]) + CharCount(Tail(presses))

\* C17: a poll consumes characters of at most one pending key press: what
\* it reads after an escape character belongs to the same key press, so a
\* pending press of another key is left for a later poll.
C17_OnePressPerPoll ==
    [][(pc = "poll" /\ pc' # "poll" /\ stdin # <<>>) =>
          CharCount(stdin) - CharCount(stdin') <= Len(stdin[1])]_vars

\* C19: once no direction change is accepted any more and the ticks keep
\* firing, the session eventually ends with reason wall or self.
C19_CoastEnds == <>(reason \in {"wall", "self"})
====
